---- MODULE Spec2Model ----
(***************************************************************************)
(* Conversation store and inference client of azure-chatbot-sidecar.       *)
(*                                                                         *)
(* The repository holds two servers.  "sidecar-app" is                     *)
(* sidecar-app/app.js: a session store (chatSessions) whose send handler   *)
(* calls the sidecar once.  "chatbot-api" is the express app of            *)
(* src/unnamed/part_002 with services/chatService.js (ChatService) and     *)
(* services/llmService.js (LLMService, the retrying client).  A process    *)
(* runs one of them; impl says which.                                      *)
(***************************************************************************)
EXTENDS Integers, Sequences, FiniteSets, TLC

\* ---------------------------------------------------------------- bounds
MaxEnvRetries == 5      \* largest LLM_MAX_RETRIES the environment sets
MaxSends == 2           \* send requests accepted in one run, all of which may overlap
MaxSessions == 2        \* sessions created (sidecar-app), conversation ids in use (chatbot-api)
MaxTicks == 1           \* times the clock advances
TickHours == 25         \* hours by which it advances: more than the retention window
SmallLength == 3        \* the MAX_CONVERSATION_LENGTH the environment sets, when it sets one
MaxSerialSends == 7     \* sends of the one-client workload (SpecSerial)
MaxListSessions == 21   \* sessions created by the listing workload (SpecList)
MaxImportHeap == 3      \* objects allocated before the last import (SpecImport)
MaxImportSends == 3     \* sends of the backup workload (SpecImport)
MaxSweepSends == 3      \* sends of the retention workload (SpecSweep)
MaxBackupSends == 1     \* sends of the restore workload (SpecBackup)

\* ------------------------------------------------------ program constants
DefaultMaxRetries == 3
BaseDelay == 1000
MaxDelay == 5000
DefaultMaxLength == 20      \* MAX_CONVERSATION_LENGTH default
HistoryWindow == 10         \* session.messages.slice(-10)
MaxAgeHours == 24           \* maxAge of _cleanupOldConversations, in hours
MaxMessageChars == 4000     \* isLength({ min: 1, max: 4000 })
ListLimit == 20             \* .slice(0, 20) of GET /api/chat/sessions

VARIABLES
    impl,           \* which server runs: "sidecar-app" or "chatbot-api"
    now,            \* the clock (Date.now()), in hours
    heap,           \* the session / conversation objects, by reference
    chatSessions,   \* sidecar-app: const chatSessions = new Map(), id -> reference
    conversations,  \* chatbot-api: ChatService.conversations, id -> reference
    maxConversationLength,  \* ChatService.maxConversationLength
    calls,          \* the send handlers suspended at their await, by request number
    nreq,           \* send requests accepted so far
    resp,           \* the last response a handler produced
    maxRetries,     \* LLMService.maxRetries, set by the constructor
    llm             \* one LLMService.generateResponse call: its locals and position

vars == <<impl, now, heap, chatSessions, conversations, maxConversationLength,
          calls, nreq, resp, maxRetries, llm>>

storeVars == <<impl, now, heap, chatSessions, conversations, maxConversationLength,
               calls, nreq, resp>>

Min(a, b) == IF a < b THEN a ELSE b

\* ------------------------------------------------------------ LLMService

\* parseInt(process.env.X) || dflt : an unset variable parses to NaN, and NaN
\* and 0 are falsy.  env is <<>> (unset) or <<n>>.
ParseIntOr(env, dflt) ==
    IF env = <<>> THEN dflt ELSE IF env[1] = 0 THEN dflt ELSE env[1]

EnvRetries == {<<>>} \cup {<<n>> : n \in 0..MaxEnvRetries}

\* What the sidecar does with one POST /api/generate.
SidecarAnswers == {"ok", "empty", "refused", "timeout", "http500", "http400"}

\* axios rejects on a network error, on its timeout and on every non-2xx status.
IsRejected(ans) == ans \notin {"ok", "empty"}

\* error.message of the rejection.
ErrorMessage(ans) ==
    CASE ans = "refused" -> "connect ECONNREFUSED 127.0.0.1:11434"
      [] ans = "timeout" -> "timeout of 30000ms exceeded"
      [] ans = "http500" -> "Request failed with status code 500"
      [] ans = "http400" -> "Request failed with status code 400"
      [] OTHER -> ""

\* response.data.response || ''
ResponseText(ans) == IF ans = "ok" THEN <<"Hi there">> ELSE <<>>

\* response.data.eval_count as the sidecar sent it: <<>> when absent
MetaEvalCount(ans) == IF ans = "ok" THEN <<5>> ELSE <<>>

NoResult ==
    [kind |-> "none", text |-> <<>>, attempt |-> 0, evalCount |-> <<>>,
     attempts |-> 0, cause |-> ""]

LLMIdle ==
    [pc |-> "idle", prompt |-> <<>>, attempt |-> 0, lastError |-> "",
     posts |-> 0, waits |-> <<>>, seen |-> "", result |-> NoResult]

\* Math.min(1000 * Math.pow(2, attempt - 1), 5000)
DelayNoCap(attempt) == BaseDelay * 2^(attempt - 1)
Delay(attempt) == Min(BaseDelay * 2^(attempt - 1), MaxDelay)

\* lastError = error
CatchKeepsFirst(lastError, error) == IF lastError = "" THEN error ELSE lastError
CatchError(lastError, error) == error

\* if (attempt < this.maxRetries) : a sleep follows the failed attempt
SleepsAlways(attempt, mr) == TRUE
SleepsAfterFirstOnly(attempt, mr) == attempt < mr /\ attempt = 1
SleepsAfter(attempt, mr) == attempt < mr

\* the for loop's condition, attempt <= this.maxRetries
LoopTwice(attempt, mr) == attempt <= 2 * mr
LoopOneMore(attempt, mr) == attempt <= mr + 1
LoopCondition(attempt, mr) == attempt <= mr

\* throw new Error(`LLM service failed after ${this.maxRetries} attempts: ${lastError.message}`)
ExhaustedReturns(s, mr) ==
    [s EXCEPT !.pc = "failed",
              !.result = [NoResult EXCEPT !.kind = "failure", !.attempts = mr,
                                          !.cause = s.lastError]]
Exhausted(s, mr) ==
    [s EXCEPT !.pc = "failed",
              !.result = [NoResult EXCEPT !.kind = "throw", !.attempts = mr,
                                          !.cause = s.lastError]]

\* attempt++ and the loop test, then either the next POST or the throw.
NextIteration(s, mr) ==
    LET t == [s EXCEPT !.attempt = s.attempt + 1]
    IN  IF LoopCondition(t.attempt, mr)
        THEN [t EXCEPT !.pc = "attempting"]
        ELSE Exhausted(t, mr)

\* generateResponse(prompt, options) up to its first await.
LLMBegin(prompt, mr) ==
    NextIteration([LLMIdle EXCEPT !.prompt = prompt], mr)

\* The awaited POST of attempt s.attempt settles with ans.
LLMSettle(s, ans, mr) ==
    LET posted == [s EXCEPT !.posts = s.posts + 1, !.seen = ans]
    IN  IF ~IsRejected(ans)
        THEN [posted EXCEPT !.pc = "success",
                            !.result = [NoResult EXCEPT !.kind = "ok",
                                                        !.text = ResponseText(ans),
                                                        !.attempt = s.attempt,
                                                        !.evalCount = MetaEvalCount(ans)]]
        ELSE LET caught == [posted EXCEPT
                              !.lastError = CatchError(s.lastError, ErrorMessage(ans))]
             IN  IF SleepsAfter(s.attempt, mr)
                 THEN [caught EXCEPT !.pc = "sleeping",
                                     !.waits = Append(s.waits, Delay(s.attempt))]
                 ELSE NextIteration(caught, mr)

\* The timer of _sleep fires.
LLMWake(s, mr) == NextIteration(s, mr)

LLMDone(s) == s.pc \in {"success", "failed"}

\* The whole call against a sidecar that answers the k-th POST with script[k]
\* (and goes on answering like the last entry).
\* One step of the call: the timer fires, or the POST settles as the script says.
LLMStep(s, script, mr) ==
    IF s.pc = "sleeping" THEN LLMWake(s, mr)
    ELSE LLMSettle(s, script[Min(s.posts + 1, Len(script))], mr)

RECURSIVE RunLLM(_, _, _)
RunLLM(s, script, mr) ==
    IF LLMDone(s) THEN s
    ELSE CHOOSE done \in {RunLLM(t, script, mr) : t \in {LLMStep(s, script, mr)}} : TRUE

\* ------------------------------------------------- text, sequences, maps

\* String.prototype.trim on a text given as a sequence of tokens, " " being
\* white space.
RECURSIVE TrimLeft(_)
TrimLeft(t) == IF t # <<>> /\ Head(t) = " " THEN TrimLeft(Tail(t)) ELSE t

RECURSIVE TrimRight(_)
TrimRight(t) ==
    IF t # <<>> /\ t[Len(t)] = " " THEN TrimRight(SubSeq(t, 1, Len(t) - 1)) ELSE t

Trim(t) == TrimRight(TrimLeft(t))

\* Array.prototype.slice(-n) for n > 0
SliceLast(s, n) == IF Len(s) <= n THEN s ELSE SubSeq(s, Len(s) - n + 1, Len(s))

\* Map.prototype.set / delete / has
MapSet(m, k, v) == [x \in DOMAIN m \cup {k} |-> IF x = k THEN v ELSE m[x]]
MapDelete(m, k) == [x \in DOMAIN m \ {k} |-> m[x]]
MapHas(m, k) == k \in DOMAIN m
EmptyMap == << >>

\* ------------------------------------------------- messages and objects

SystemPromptApp == <<"You are a helpful assistant.">>
SystemPromptChat == <<"You are a helpful AI assistant.">>
FallbackNotice == <<"I apologize, but I was unable to generate a response.">>
Apology ==
    <<"I apologize, but I'm experiencing technical difficulties. Please try again in a moment.">>

\* A stored message.  req is the request that pushed it (sidecar-app gives each
\* message a uuid; here the request number and the role identify it).  model
\* is "" and tokens is <<>> where the field is absent.  tokens is the tokens
\* field of sidecar-app and metadata.evalCount of chatbot-api.  timestamp is
\* the hour the message was built in (Stamp).
UserMsg(r, content) ==
    [role |-> "user", content |-> content, error |-> FALSE, req |-> r,
     model |-> "", tokens |-> <<>>, timestamp |-> 0]

AssistantMsg(r, content, model, tokens) ==
    [role |-> "assistant", content |-> content, error |-> FALSE, req |-> r,
     model |-> model, tokens |-> tokens, timestamp |-> 0]

ErrorMsg(r) ==
    [role |-> "assistant", content |-> Apology, error |-> TRUE, req |-> r,
     model |-> "", tokens |-> <<>>, timestamp |-> 0]

\* timestamp: new Date().toISOString() (sidecar-app), new Date() (chatbot-api)
Stamp(m, t) == [m EXCEPT !.timestamp = t]

\* A session (sidecar-app) or conversation (chatbot-api) object.  log is a
\* history variable: every message ever pushed onto this object, in order.
NoObj ==
    [messages |-> <<>>, createdAt |-> 0, lastActivity |-> 0, title |-> "", log |-> <<>>]

\* messages.push(m)
PushOver(obj, m) ==
    IF obj.messages = <<>> THEN [obj EXCEPT !.messages = <<m>>, !.log = Append(@, m)]
    ELSE [obj EXCEPT !.messages = [@ EXCEPT ![Len(@)] = m], !.log = Append(@, m)]
PushFront(obj, m) == [obj EXCEPT !.messages = <<m>> \o @, !.log = Append(@, m)]
Push(obj, m) == [obj EXCEPT !.messages = Append(@, m), !.log = Append(@, m)]

PromptEntry(m) == [role |-> m.role, content |-> m.content]

NoCall == [id |-> 0, ref |-> 0, fresh |-> NoObj, user |-> UserMsg(0, <<>>), prompt |-> <<>>]

\* list holds the ids of a listing, in the order of the response.
NoResp ==
    [op |-> "none", req |-> 0, id |-> 0, status |-> 0, count |-> 0,
     flagged |-> FALSE, list |-> <<>>]

Respond(op, r, id, status) ==
    [NoResp EXCEPT !.op = op, !.req = r, !.id = id, !.status = status]

\* Objects nothing refers to any more (neither the map nor a suspended call)
\* are garbage: their slots are blanked, their references are never reused.
Collect(h, m, cs) ==
    [ref \in 1..Len(h) |->
        IF (\E k \in DOMAIN m : m[k] = ref) \/ (\E r \in DOMAIN cs : cs[r].ref = ref)
        THEN h[ref] ELSE NoObj]

\* ----------------------------------------------- sidecar-app (app.js)

Titles == {""}

\* What a client puts in the message field: nothing, white space, a padded text.
Messages == {<<>>, <<" ">>, <<" ", "Hello">>}

\* uuidv4(): an id never seen before.  Ids are numbered in the order they
\* are made; h holds an object for every id made so far.
Uuidv4First(h) == 1
Uuidv4(h) == Len(h) + 1

\* POST /api/chat/sessions
AppCreateSession(title) ==
    /\ impl = "sidecar-app"
    /\ LET sessionId == Uuidv4(heap)
           session == [NoObj EXCEPT !.createdAt = now,
                                    !.title = IF title = "" THEN "New Chat Session"
                                              ELSE title]
       IN  /\ heap' = Append(heap, session)
           /\ chatSessions' = MapSet(chatSessions, sessionId, sessionId)
           /\ resp' = Respond("create", 0, sessionId, 201)
    /\ UNCHANGED <<impl, now, conversations, maxConversationLength, calls, nreq,
                   maxRetries, llm>>

\* GET /api/chat/sessions/:sessionId
AppGetSession(id) ==
    /\ impl = "sidecar-app"
    /\ resp' = IF MapHas(chatSessions, id)
               THEN [Respond("get", 0, id, 200) EXCEPT
                        !.count = Len(heap[chatSessions[id]].messages)]
               ELSE Respond("get", 0, id, 404)
    /\ UNCHANGED <<impl, now, heap, chatSessions, conversations,
                   maxConversationLength, calls, nreq, maxRetries, llm>>

\* DELETE /api/chat/sessions/:sessionId
AppDeleteSession(id) ==
    /\ impl = "sidecar-app"
    /\ chatSessions' = MapDelete(chatSessions, id)
    /\ heap' = Collect(heap, chatSessions', calls)
    /\ resp' = Respond("delete", 0, id, IF MapHas(chatSessions, id) THEN 200 ELSE 404)
    /\ UNCHANGED <<impl, now, conversations, maxConversationLength, calls,
                   nreq, maxRetries, llm>>

\* The messages array of the send handler: the system entry, the last ten
\* stored messages (the user message was pushed before), the message again.
AppWindowAll(messages) == messages
AppWindow(messages) == SliceLast(messages, HistoryWindow)

AppPrompt(messages, message) ==
    <<[role |-> "system", content |-> SystemPromptApp]>>
    \o [i \in 1..Len(AppWindow(messages)) |-> PromptEntry(AppWindow(messages)[i])]
    \o <<[role |-> "user", content |-> message]>>

\* if (!message || !message.trim())
AppRejectsEmptyOnly(message) == message = <<>>
AppRejects(message) == message = <<>> \/ Trim(message) = <<>>

\* chatSessions.get(sessionId): the session's reference, 0 for undefined
AppGetStale(id) == IF id \in 1..Len(heap) THEN id ELSE 0
AppGet(id) == IF MapHas(chatSessions, id) THEN chatSessions[id] ELSE 0

\* POST /api/chat/sessions/:sessionId/messages, up to the await of axios.post
AppSendMessage(id, message) ==
    /\ impl = "sidecar-app"
    /\ IF AppRejects(message)
       THEN /\ resp' = Respond("send", 0, id, 400)
            /\ UNCHANGED <<heap, calls, nreq>>
       ELSE IF AppGet(id) = 0
       THEN /\ resp' = Respond("send", 0, id, 404)
            /\ UNCHANGED <<heap, calls, nreq>>
       ELSE LET r == nreq + 1
                ref == AppGet(id)
                userMessage == Stamp(UserMsg(r, Trim(message)), now)
                session == Push(heap[ref], userMessage)
            IN  /\ heap' = [heap EXCEPT ![ref] = session]
                /\ calls' = MapSet(calls, r,
                                   [NoCall EXCEPT !.id = id, !.ref = ref,
                                                  !.user = userMessage,
                                                  !.prompt = AppPrompt(session.messages, message)])
                /\ nreq' = r
                /\ UNCHANGED resp
    /\ UNCHANGED <<impl, now, chatSessions, conversations, maxConversationLength,
                   maxRetries, llm>>

\* aiResponse.data.choices?.[0]?.message?.content || '...unable to generate a response.'
AiContentRaw(ans) == IF ans = "ok" THEN <<"Hi there">> ELSE <<>>
AiContent(ans) == IF ans = "ok" THEN <<"Hi there">> ELSE FallbackNotice

\* aiResponse.data.eval_count || 0
EvalCountZero(ans) == <<0>>
EvalCount(ans) == IF ans = "ok" THEN <<5>> ELSE <<0>>

\* res.status(500) of the catch block
AppFailureStatusSoft(ans) == 200
AppFailureStatus(ans) == 500

\* the message the catch block pushes
AppErrorMessage(r, ans) == ErrorMsg(r)

\* The awaited axios.post of request r settles with ans: the rest of the handler.
AppSettle(r, ans) ==
    /\ impl = "sidecar-app"
    /\ MapHas(calls, r)
    /\ LET c == calls[r]
           msg == Stamp(IF IsRejected(ans)
                        THEN AppErrorMessage(r, ans)
                        ELSE AssistantMsg(r, Trim(AiContent(ans)), "phi4", EvalCount(ans)),
                        now)
           session == Push(heap[c.ref], msg)
       IN  /\ heap' = [heap EXCEPT ![c.ref] = session]
           /\ chatSessions' = MapSet(chatSessions, c.id, c.ref)
           /\ resp' = IF IsRejected(ans)
                      THEN [Respond("send", r, c.id, AppFailureStatus(ans)) EXCEPT
                               !.flagged = TRUE]
                      ELSE [Respond("send", r, c.id, 200) EXCEPT
                               !.count = Len(session.messages)]
    /\ calls' = MapDelete(calls, r)
    /\ UNCHANGED <<impl, now, conversations, maxConversationLength, nreq,
                   maxRetries, llm>>

\* -------------------------- chatbot-api (part_002, chatService.js)

\* The conversationId field of a request body: <<>> when absent, <<n>> with
\* n >= 1 a UUID, <<0>> a text that is no UUID.
ConversationIds == {<<>>} \cup {<<n>> : n \in 0..MaxSessions}

\* The context field: "none" when absent, "object", or "text" (not an object).
Contexts == {"none", "object", "text"}

\* express-validator: body('message').trim().isLength({ min: 1, max: 4000 })
MessageValid(message) == Len(Trim(message)) >= 1 /\ Len(Trim(message)) <= MaxMessageChars

\* body('conversationId').optional().isUUID(), body('context').optional().isObject()
RequestValid(message, cid, context) ==
    /\ MessageValid(message)
    /\ cid = <<>> \/ cid[1] >= 1
    /\ context # "text"

\* if (conversation.messages.length > this.maxConversationLength)
\*   conversation.messages = conversation.messages.slice(-this.maxConversationLength)
TrimToWindow(messages, cap) == SliceLast(messages, HistoryWindow)
TrimToCap(messages, cap) == IF Len(messages) > cap THEN SliceLast(messages, cap) ELSE messages

\* [{ role: 'system', content: this.systemPrompt }, ...conversation.messages]
ChatPrompt(messages) ==
    <<[role |-> "system", content |-> SystemPromptChat]>>
    \o [i \in 1..Len(messages) |-> PromptEntry(messages[i])]

\* LLMService._formatMessagesAsPrompt
FormatMessagesAsPrompt(messages) ==
    [i \in 1..Len(messages) |->
        <<IF messages[i].role = "user" THEN "Human" ELSE "Assistant", messages[i].content>>]
    \o << <<"Assistant:">> >>

\* this.conversations.get(conversationId): the reference, 0 for undefined
ChatGetFirst(id) ==
    IF conversations = EmptyMap THEN 0
    ELSE conversations[CHOOSE k \in DOMAIN conversations : \A j \in DOMAIN conversations : k <= j]
ChatGet(id) == IF MapHas(conversations, id) THEN conversations[id] ELSE 0

\* The object a suspended call works on: the stored one or its own new one.
CallObj(c) == IF c.ref = 0 THEN c.fresh ELSE heap[c.ref]

\* POST /api/chat, and ChatService.generateResponse up to its await
ChatPost(message, cid, context) ==
    /\ impl = "chatbot-api"
    /\ IF ~RequestValid(message, cid, context)
       THEN /\ resp' = Respond("send", 0, 0, 400)
            /\ UNCHANGED <<heap, calls, nreq>>
       ELSE \E id \in 1..MaxSessions :
            \* conversationId = uuidv4() when the body names none
            /\ IF cid = <<>> THEN ~MapHas(conversations, id) ELSE id = cid[1]
            /\ LET r == nreq + 1
                   ref == ChatGet(id)
                   found == IF ref = 0
                            THEN [NoObj EXCEPT !.createdAt = now, !.lastActivity = now]
                            ELSE heap[ref]
                   userMessage == Stamp(UserMsg(r, Trim(message)), now)
                   pushed == Push(found, userMessage)
                   conversation ==
                       [pushed EXCEPT !.messages = TrimToCap(@, maxConversationLength)]
               IN  /\ heap' = IF ref = 0 THEN heap ELSE [heap EXCEPT ![ref] = conversation]
                   /\ calls' = MapSet(calls, r,
                                  [NoCall EXCEPT
                                      !.id = id, !.ref = ref,
                                      !.fresh = IF ref = 0 THEN conversation ELSE NoObj,
                                      !.user = userMessage,
                                      !.prompt = ChatPrompt(conversation.messages)])
                   /\ nreq' = r
                   /\ UNCHANGED resp
    /\ UNCHANGED <<impl, now, chatSessions, conversations, maxConversationLength,
                   maxRetries, llm>>

\* ChatService._cleanupOldConversations, on the map m
CleanupByCreation(m, h, t) ==
    [id \in {k \in DOMAIN m : ~(h[m[k]].createdAt < t - MaxAgeHours)} |-> m[id]]
CleanupOldConversations(m, h, t) ==
    [id \in {k \in DOMAIN m : ~(h[m[k]].lastActivity < t - MaxAgeHours)} |-> m[id]]

\* How the sidecar answers the POSTs of one generateResponse call.
Scripts ==
    {<<"ok">>, <<"empty">>, <<"refused", "timeout", "ok">>, <<"timeout">>,
     <<"http500">>, <<"http400">>, <<"http400", "ok">>}

\* The awaited call of request r never settles.
ChatSettlePends(r, script) ==
    impl = "chatbot-api" /\ MapHas(calls, r) /\ UNCHANGED vars

\* The awaited llmService.generateChatResponse of request r settles: the rest of
\* generateResponse and of the POST /api/chat handler.
ChatSettle(r, script) ==
    /\ impl = "chatbot-api"
    /\ MapHas(calls, r)
    /\ LET c == calls[r]
           done == RunLLM(LLMBegin(FormatMessagesAsPrompt(c.prompt), maxRetries),
                          script, maxRetries)
       IN  IF done.result.kind = "ok"
           THEN LET assistantMessage ==
                        Stamp(AssistantMsg(r, done.result.text, "", done.result.evalCount), now)
                    conversation ==
                        [Push(CallObj(c), assistantMessage) EXCEPT !.lastActivity = now]
                    ref == IF c.ref = 0 THEN Len(heap) + 1 ELSE c.ref
                    h == IF c.ref = 0 THEN Append(heap, conversation)
                         ELSE [heap EXCEPT ![ref] = conversation]
                IN  /\ conversations' =
                          CleanupOldConversations(MapSet(conversations, c.id, ref), h, now)
                    /\ heap' = Collect(h, conversations', MapDelete(calls, r))
                    /\ resp' = [Respond("send", r, c.id, 200) EXCEPT
                                   !.count = Len(conversation.messages)]
           ELSE \* throw new Error(`Failed to generate chat response: ...`), then 500
                /\ resp' = Respond("send", r, c.id, 500)
                /\ heap' = Collect(heap, conversations, MapDelete(calls, r))
                /\ UNCHANGED conversations
    /\ calls' = MapDelete(calls, r)
    /\ UNCHANGED <<impl, now, chatSessions, maxConversationLength, nreq, maxRetries, llm>>

\* ChatService.getConversationHistory: conversation ? conversation.messages : []
GetConversationHistoryNone(id) == <<>>
GetConversationHistory(id) ==
    IF ChatGet(id) = 0 THEN <<>> ELSE heap[ChatGet(id)].messages

\* GET /api/conversations/:conversationId
ChatGetHistory(cid) ==
    /\ impl = "chatbot-api"
    /\ resp' = IF cid[1] < 1
               THEN Respond("get", 0, 0, 400)
               ELSE [Respond("get", 0, cid[1], 200) EXCEPT
                        !.count = Len(GetConversationHistory(cid[1]))]
    /\ UNCHANGED <<impl, now, heap, chatSessions, conversations,
                   maxConversationLength, calls, nreq, maxRetries, llm>>

\* ChatService.clearConversation
ChatClearConversation(id) ==
    /\ impl = "chatbot-api"
    /\ conversations' = MapDelete(conversations, id)
    /\ heap' = Collect(heap, conversations', calls)
    /\ resp' = [Respond("delete", 0, id, 0) EXCEPT !.flagged = MapHas(conversations, id)]
    /\ UNCHANGED <<impl, now, chatSessions, maxConversationLength, calls,
                   nreq, maxRetries, llm>>

\* ------------------------------------------------- import of a backup

\* JSON.stringify of a Date: the ISO text of its instant.
ToISOString(t) == [instant |-> t]

\* new Date(v) of the ISO text of a backup: the Date of that instant.
NewDate(v) == v.instant

\* A message as a backup holds it, and as the import leaves it
\* (msg.timestamp = new Date(msg.timestamp)).
MsgToJson(m) == [m EXCEPT !.timestamp = ToISOString(m.timestamp)]

MsgFromJson(m) == [m EXCEPT !.timestamp = NewDate(m.timestamp)]

\* The conversation a backup holds for an id: an object with no messages array
\* ("invalid"), the stored object itself as exportConversations returns it
\* ("same"), or the JSON of the conversation as it was after its first n
\* messages; for an id that is not stored, the JSON of a conversation of
\* another process.
ImportData(id) ==
    {[kind |-> "invalid", messages |-> <<>>, createdAt |-> ToISOString(0),
      lastActivity |-> ToISOString(0)]}
    \cup
    IF MapHas(conversations, id)
    THEN LET obj == heap[conversations[id]]
         IN  {[kind |-> "same", messages |-> <<>>, createdAt |-> ToISOString(0),
               lastActivity |-> ToISOString(0)]}
             \cup {[kind |-> "json",
                    messages |-> [i \in 1..n |-> MsgToJson(obj.log[i])],
                    createdAt |-> ToISOString(obj.createdAt),
                    lastActivity |-> ToISOString(IF n = 0 THEN obj.createdAt
                                                 ELSE obj.log[n].timestamp)] :
                      n \in 0..Len(obj.log)}
    ELSE {[kind |-> "json",
           messages |-> <<MsgToJson(UserMsg(0, <<"Hello">>))>>,
           createdAt |-> ToISOString(0), lastActivity |-> ToISOString(0)]}

\* ChatService.importConversations({ [id]: conv }): count is the number imported
ChatImportConversations(id, conv) ==
    /\ impl = "chatbot-api"
    /\ IF conv.kind = "invalid"
       THEN /\ resp' = Respond("import", 0, id, 0)
            /\ UNCHANGED <<heap, conversations>>
       ELSE IF conv.kind = "same"
       THEN /\ resp' = [Respond("import", 0, id, 0) EXCEPT !.count = 1]
            /\ UNCHANGED <<heap, conversations>>
       ELSE LET messages == [i \in DOMAIN conv.messages |-> MsgFromJson(conv.messages[i])]
                imported == [NoObj EXCEPT !.messages = messages, !.log = messages,
                                          !.createdAt = NewDate(conv.createdAt),
                                          !.lastActivity = NewDate(conv.lastActivity)]
            IN  /\ conversations' = MapSet(conversations, id, Len(heap) + 1)
                /\ heap' = Collect(Append(heap, imported), conversations', calls)
                /\ resp' = [Respond("import", 0, id, 0) EXCEPT !.count = 1]
    /\ UNCHANGED <<impl, now, chatSessions, maxConversationLength, calls, nreq,
                   maxRetries, llm>>

\* if (conv.messages && Array.isArray(conv.messages))
HasMessagesAlways(conv) == TRUE
HasMessages(conv) == conv.kind # "invalid"

\* new Date(d) of a Date d: a Date of the same instant.
CopyDate(d) == d

\* ChatService.exportConversations(): Object.fromEntries(this.conversations),
\* every stored id with its conversation object, by reference.
ExportEntry(ref) ==
    [kind |-> "same", ref |-> ref, messages |-> <<>>,
     createdAt |-> ToISOString(0), lastActivity |-> ToISOString(0)]

ExportConversations == [id \in DOMAIN conversations |-> ExportEntry(conversations[id])]

\* The entries an import may hold for an id: an object with no messages array,
\* the JSON of a conversation of another process, and, for a stored id, the
\* stored object itself as exportConversations returns it.
EntriesFor(id) ==
    {[kind |-> "invalid", ref |-> 0, messages |-> <<>>,
      createdAt |-> ToISOString(0), lastActivity |-> ToISOString(0)],
     [kind |-> "json", ref |-> 0,
      messages |-> <<MsgToJson(UserMsg(0, <<"Hello">>))>>,
      createdAt |-> ToISOString(0), lastActivity |-> ToISOString(0)]}
    \cup IF MapHas(conversations, id) THEN {ExportEntry(conversations[id])} ELSE {}

\* The data of an import: entries for some of the ids.
BackupData ==
    UNION {{d \in [S -> UNION {EntriesFor(id) : id \in S}] :
               \A id \in S : d[id] \in EntriesFor(id)} : S \in SUBSET (1..MaxSessions)}

\* One iteration of the loop of importConversations, on the heap, the map and
\* the counter of st.
ImportEntry(st, id, conv) ==
    IF ~HasMessages(conv) THEN st
    ELSE IF conv.kind = "same"
    THEN LET old == st.heap[conv.ref]
             obj == [old EXCEPT
                       !.createdAt = CopyDate(@), !.lastActivity = CopyDate(@),
                       !.messages = [i \in DOMAIN @ |->
                                        [@[i] EXCEPT !.timestamp = CopyDate(@)]]]
         IN  [heap |-> [st.heap EXCEPT ![conv.ref] = obj],
              conversations |-> MapSet(st.conversations, id, conv.ref),
              imported |-> st.imported + 1]
    ELSE LET messages == [i \in DOMAIN conv.messages |-> MsgFromJson(conv.messages[i])]
             obj == [NoObj EXCEPT !.messages = messages, !.log = messages,
                                  !.createdAt = NewDate(conv.createdAt),
                                  !.lastActivity = NewDate(conv.lastActivity)]
         IN  [heap |-> Append(st.heap, obj),
              conversations |-> MapSet(st.conversations, id, Len(st.heap) + 1),
              imported |-> st.imported + 1]

\* for (const [id, conv] of Object.entries(data))
RECURSIVE ImportEntries(_, _, _)
ImportEntries(st, data, ids) ==
    IF ids = {} THEN st
    ELSE LET id == CHOOSE k \in ids : \A j \in ids : k <= j
         IN  CHOOSE done \in {ImportEntries(t, data, ids \ {id}) :
                                  t \in {ImportEntry(st, id, data[id])}} : TRUE

\* ChatService.importConversations(data): count is the number it returns
ChatImportData(data) ==
    /\ impl = "chatbot-api"
    /\ \E st \in {ImportEntries([heap |-> heap, conversations |-> conversations,
                                  imported |-> 0], data, DOMAIN data)} :
           /\ conversations' = st.conversations
           /\ heap' = Collect(st.heap, st.conversations, calls)
           /\ resp' = [Respond("import", 0, 0, 0) EXCEPT !.count = st.imported]
    /\ UNCHANGED <<impl, now, chatSessions, maxConversationLength, calls, nreq,
                   maxRetries, llm>>

\* ------------------------------------------------------------- listings

\* Array.prototype.sort with the comparator (a, b) => key(b) - key(a): a stable
\* sort, largest key first.  f maps an id to its key.
RECURSIVE InsertDesc(_, _, _)
InsertDesc(x, s, f) ==
    IF s = <<>> THEN <<x>>
    ELSE IF f[Head(s)] >= f[x] THEN <<Head(s)>> \o InsertDesc(x, Tail(s), f)
    ELSE <<x>> \o s

RECURSIVE SortDesc(_, _)
SortDesc(s, f) ==
    IF s = <<>> THEN <<>>
    ELSE InsertDesc(s[Len(s)], SortDesc(SubSeq(s, 1, Len(s) - 1), f), f)

\* Array.prototype.slice(0, n)
SliceFirst(s, n) == SubSeq(s, 1, Min(Len(s), n))

RECURSIVE Ascending(_)
Ascending(S) ==
    IF S = {} THEN <<>>
    ELSE LET x == CHOOSE y \in S : \A z \in S : y <= z
         IN  <<x>> \o Ascending(S \ {x})

\* The orders a Map may iterate in.  A Map iterates in insertion order, which
\* the maps of this model do not record.  In sidecar-app it is the ascending
\* order of the ids until a send settles on a session deleted meanwhile
\* (chatSessions.set inserts it again, at the end); in chatbot-api it is the
\* order in which the conversations' first sends succeeded.
IterationOrders(m) ==
    IF impl = "sidecar-app" /\ nreq = 0 THEN {Ascending(DOMAIN m)}
    ELSE {s \in [1..Cardinality(DOMAIN m) -> DOMAIN m] :
             \A i, j \in DOMAIN s : i # j => s[i] # s[j]}

\* .slice(0, 20)
ListSliceAll(s) == s
ListSlice(s) == SliceFirst(s, ListLimit)

\* GET /api/chat/sessions: count is total (chatSessions.size)
AppListSessions ==
    /\ impl = "sidecar-app"
    /\ \E values \in IterationOrders(chatSessions) :
          LET createdAt == [id \in DOMAIN chatSessions |-> heap[chatSessions[id]].createdAt]
              sessions == ListSlice(SortDesc(values, createdAt))
          IN  resp' = [Respond("list", 0, 0, 200) EXCEPT
                          !.list = sessions,
                          !.count = Cardinality(DOMAIN chatSessions)]
    /\ UNCHANGED <<impl, now, heap, chatSessions, conversations,
                   maxConversationLength, calls, nreq, maxRetries, llm>>

\* ChatService.getActiveConversations: a method, no route calls it
ChatGetActiveConversations ==
    /\ impl = "chatbot-api"
    /\ \E entries \in IterationOrders(conversations) :
          LET lastActivity ==
                  [id \in DOMAIN conversations |-> heap[conversations[id]].lastActivity]
          IN  resp' = [Respond("list", 0, 0, 0) EXCEPT
                          !.list = SortDesc(entries, lastActivity),
                          !.count = Len(entries)]
    /\ UNCHANGED <<impl, now, heap, chatSessions, conversations,
                   maxConversationLength, calls, nreq, maxRetries, llm>>

\* ------------------------------------------------------------ health probes

\* The models field of the sidecar's answer to GET /api/tags ( || [] when absent).
ModelLists == {<<>>, <<"phi4">>, <<"phi4", "tinyllama">>}

\* What the sidecar does with one GET /api/tags (5 s timeout).
ProbeAnswers ==
    {[kind |-> "ok", models |-> m] : m \in ModelLists}
    \cup {[kind |-> k, models |-> <<>>] : k \in {"refused", "timeout", "http500", "http400"}}

\* LLMService.healthCheck: returns 'healthy' or throws.
HealthCheckReturns(t) ==
    IF t.kind = "ok" THEN [kind |-> "return", value |-> "healthy"]
    ELSE [kind |-> "return", value |-> "unhealthy"]
HealthCheck(t) ==
    IF t.kind = "ok" THEN [kind |-> "return", value |-> "healthy"]
    ELSE [kind |-> "throw", value |-> "LLM service unhealthy"]

\* GET /api/sidecar/health of sidecar-app.  count is the number of
\* availableModels; flagged says the body has an error field (the catch block).
AppSidecarHealth(t) ==
    /\ impl = "sidecar-app"
    /\ resp' = IF t.kind = "ok"
               THEN [Respond("health", 0, 0, 200) EXCEPT !.count = Len(t.models)]
               ELSE [Respond("health", 0, 0, 503) EXCEPT !.flagged = TRUE]
    /\ UNCHANGED <<impl, now, heap, chatSessions, conversations,
                   maxConversationLength, calls, nreq, maxRetries, llm>>

\* GET /health of chatbot-api: services.llm is what healthCheck returned.
ChatHealth(t) ==
    /\ impl = "chatbot-api"
    /\ resp' = IF HealthCheck(t).kind = "return"
               THEN Respond("health", 0, 0, 200)
               ELSE [Respond("health", 0, 0, 503) EXCEPT !.flagged = TRUE]
    /\ UNCHANGED <<impl, now, heap, chatSessions, conversations,
                   maxConversationLength, calls, nreq, maxRetries, llm>>

\* --------------------------------------------------------- the two servers

\* Time passes.  One call lasts at most maxRetries timeouts of 30 s and the
\* backoff between them, far less than the hours counted here, so the clock
\* is advanced between calls.
Tick ==
    /\ now < MaxTicks * TickHours
    /\ calls = EmptyMap
    /\ now' = now + TickHours
    /\ UNCHANGED <<impl, heap, chatSessions, conversations, maxConversationLength,
                   calls, nreq, resp, maxRetries, llm>>

EnvLengths == {<<>>, <<SmallLength>>}

Init ==
    /\ impl \in {"sidecar-app", "chatbot-api"}
    /\ now = 0
    /\ heap = <<>>
    /\ chatSessions = EmptyMap
    /\ conversations = EmptyMap
    /\ \E e \in EnvLengths :
          maxConversationLength = IF impl = "chatbot-api"
                                  THEN ParseIntOr(e, DefaultMaxLength) ELSE 0
    /\ calls = EmptyMap
    /\ nreq = 0
    /\ resp = NoResp
    /\ maxRetries = ParseIntOr(<<>>, DefaultMaxRetries)
    /\ llm = LLMIdle

\* The workload admitted: at most sends requests in all, flights at a time.
Admit(sends, flights) == nreq < sends /\ Cardinality(DOMAIN calls) < flights

\* The requests of the clients and the answers of the sidecar, with at most
\* flights send handlers suspended at a time.
Handlers(flights) ==
    \/ \E t \in Titles : Len(heap) < MaxSessions /\ AppCreateSession(t)
    \/ \E id \in 0..Len(heap) : AppGetSession(id)
    \/ \E id \in 0..Len(heap) : AppDeleteSession(id)
    \/ \E id \in 0..Len(heap), m \in Messages :
          Admit(MaxSends, flights) /\ AppSendMessage(id, m)
    \/ \E r \in DOMAIN calls, ans \in SidecarAnswers : AppSettle(r, ans)
    \/ \E m \in Messages, cid \in ConversationIds, x \in Contexts :
          Admit(MaxSends, flights) /\ ChatPost(m, cid, x)
    \/ \E r \in DOMAIN calls, s \in Scripts : ChatSettle(r, s)
    \/ \E cid \in ConversationIds \ {<<>>} : ChatGetHistory(cid)
    \/ \E id \in 1..MaxSessions : ChatClearConversation(id)

\* Runs shorter than the retention window, with overlapping sends.
Next == Handlers(MaxSends)

Spec == Init /\ [][Next]_vars

\* Runs in which the clock advances past the retention window, with one send
\* at a time.
NextClock == Handlers(1) \/ Tick

SpecClock == Init /\ [][NextClock]_vars

\* The same runs under the scheduling the platform guarantees: the clock
\* advances, and every awaited sidecar call settles (axios gives up after its
\* 30 s timeout).  Nothing obliges a client to send a request, and neither
\* server starts a timer of its own.
SpecClockFair ==
    /\ SpecClock
    /\ WF_vars(Tick)
    /\ WF_vars(\E r \in DOMAIN calls, ans \in SidecarAnswers : AppSettle(r, ans))
    /\ WF_vars(\E r \in DOMAIN calls, sc \in Scripts : ChatSettle(r, sc))

\* The retention workload: clients of chatbot-api that send one text to a few
\* conversations and clear them, one send at a time, while the clock passes
\* the retention window.
NextSweep ==
    \/ \E id \in 1..MaxSessions :
          Admit(MaxSweepSends, 1) /\ ChatPost(<<" ", "Hello">>, <<id>>, "none")
    \/ \E r \in DOMAIN calls, sc \in {<<"ok">>, <<"timeout">>} : ChatSettle(r, sc)
    \/ \E id \in 1..MaxSessions : ChatClearConversation(id)
    \/ Tick

SpecSweep == Init /\ [][NextSweep]_vars

\* The servers with their health endpoints probed between the other requests.
NextHealth ==
    \/ Handlers(1)
    \/ \E t \in ProbeAnswers : AppSidecarHealth(t)
    \/ \E t \in ProbeAnswers : ChatHealth(t)

SpecHealth == Init /\ [][NextHealth]_vars

\* The listing workload: many sessions created and listed while the clock
\* advances; sends, and the deletions they may overlap with, on the first
\* sessions only.
NextList ==
    \/ /\ Len(heap) < MaxSessions \/ (nreq = 0 /\ Len(heap) < MaxListSessions)
       /\ AppCreateSession("")
    \/ \E id \in 1..Min(Len(heap), MaxSessions) : AppDeleteSession(id)
    \/ \E id \in 1..Len(heap) :
          /\ Len(heap) <= MaxSessions /\ Admit(1, 1)
          /\ AppSendMessage(id, <<" ", "Hello">>)
    \/ \E r \in DOMAIN calls, ans \in {"ok", "timeout"} : AppSettle(r, ans)
    \/ AppListSessions
    \/ \E id \in 1..MaxSessions :
          Admit(MaxSends, 1) /\ ChatPost(<<" ", "Hello">>, <<id>>, "none")
    \/ \E r \in DOMAIN calls, sc \in {<<"ok">>, <<"timeout">>} : ChatSettle(r, sc)
    \/ \E id \in 1..MaxSessions : ChatClearConversation(id)
    \/ ChatGetActiveConversations
    \/ Tick

SpecList == Init /\ [][NextList]_vars

\* The backup workload: one client sends to one session or conversation and
\* waits for each answer; backups of the conversation are imported, and the
\* conversation cleared, at any time.
NextImport ==
    \/ Len(heap) < 1 /\ AppCreateSession("")
    \/ Admit(MaxImportSends, 1) /\ AppSendMessage(1, <<" ", "Hello">>)
    \/ \E r \in DOMAIN calls, ans \in {"ok", "timeout"} : AppSettle(r, ans)
    \/ Admit(MaxImportSends, 1) /\ ChatPost(<<" ", "Hello">>, <<1>>, "none")
    \/ \E r \in DOMAIN calls, sc \in {<<"ok">>, <<"timeout">>} : ChatSettle(r, sc)
    \/ ChatClearConversation(1)
    \/ /\ Len(heap) < MaxImportHeap
       /\ \E conv \in ImportData(1) : ChatImportConversations(1, conv)

SpecImport == Init /\ [][NextImport]_vars

\* The restore workload: clients of chatbot-api send to a few conversations,
\* one send at a time, and data of any shape is imported, the export of the
\* store included.
NextBackup ==
    \/ \E id \in 1..MaxSessions :
          Admit(MaxBackupSends, 1) /\ ChatPost(<<" ", "Hello">>, <<id>>, "none")
    \/ \E r \in DOMAIN calls, sc \in {<<"ok">>, <<"timeout">>} : ChatSettle(r, sc)
    \/ \E data \in BackupData :
          /\ Len(heap) + Cardinality({id \in DOMAIN data : data[id].kind = "json"})
                <= MaxSessions
          /\ ChatImportData(data)

\* chatbot-api started with no MAX_CONVERSATION_LENGTH in its environment.
InitBackup ==
    /\ Init
    /\ impl = "chatbot-api"
    /\ maxConversationLength = ParseIntOr(<<>>, DefaultMaxLength)

SpecBackup == InitBackup /\ [][NextBackup]_vars

\* The overlapping workload: clients that create and delete sessions or
\* conversations and send one text to them, the sends overlapping.
NextBusy ==
    \/ Len(heap) < MaxSessions /\ AppCreateSession("")
    \/ \E id \in 1..Len(heap) : AppDeleteSession(id)
    \/ \E id \in 1..Len(heap) :
          Admit(MaxSends, MaxSends) /\ AppSendMessage(id, <<" ", "Hello">>)
    \/ \E r \in DOMAIN calls, ans \in {"ok", "timeout"} : AppSettle(r, ans)
    \/ \E id \in 1..MaxSessions :
          Admit(MaxSends, MaxSends) /\ ChatPost(<<" ", "Hello">>, <<id>>, "none")
    \/ \E r \in DOMAIN calls, sc \in {<<"ok">>, <<"timeout">>} : ChatSettle(r, sc)
    \/ \E id \in 1..MaxSessions : ChatClearConversation(id)

SpecBusy == Init /\ [][NextBusy]_vars

\* ------------------------------------------- the client alone (SpecLLM)

Prompts == {<<>>, FormatMessagesAsPrompt(<<[role |-> "user", content |-> <<"Hello">>]>>)}

InitLLM ==
    /\ impl = "chatbot-api"
    /\ now = 0
    /\ heap = <<>>
    /\ chatSessions = EmptyMap
    /\ conversations = EmptyMap
    /\ maxConversationLength = ParseIntOr(<<>>, DefaultMaxLength)
    /\ calls = EmptyMap
    /\ nreq = 0
    /\ resp = NoResp
    /\ \E e \in EnvRetries : maxRetries = ParseIntOr(e, DefaultMaxRetries)
    /\ llm = LLMIdle

LLMCall ==
    /\ llm.pc = "idle"
    /\ \E p \in Prompts : llm' = LLMBegin(p, maxRetries)
    /\ UNCHANGED <<storeVars, maxRetries>>

LLMPostSettles ==
    /\ llm.pc = "attempting"
    /\ \E ans \in SidecarAnswers : llm' = LLMSettle(llm, ans, maxRetries)
    /\ UNCHANGED <<storeVars, maxRetries>>

LLMSleepEnds ==
    /\ llm.pc = "sleeping"
    /\ llm' = LLMWake(llm, maxRetries)
    /\ UNCHANGED <<storeVars, maxRetries>>

NextLLM == LLMCall \/ LLMPostSettles \/ LLMSleepEnds

SpecLLM == InitLLM /\ [][NextLLM]_vars

\* ------------------------------------- the one-client workload (SpecSerial)

\* One client that sends to one conversation and waits for each answer before
\* the next send: the workload that grows a long history.
NextSerial ==
    \/ Len(heap) < 1 /\ AppCreateSession("")
    \/ Admit(MaxSerialSends, 1) /\ AppSendMessage(1, <<" ", "Hello">>)
    \/ \E r \in DOMAIN calls, ans \in SidecarAnswers : AppSettle(r, ans)
    \/ Admit(MaxSerialSends, 1) /\ ChatPost(<<" ", "Hello">>, <<1>>, "none")
    \/ \E r \in DOMAIN calls, s \in Scripts : ChatSettle(r, s)

SpecSerial == Init /\ [][NextSerial]_vars

\* The termination workload: one client that sends to one conversation and
\* waits for each answer, and, in chatbot-api, one direct call of
\* LLMService.generateResponse running step by step beside it.
NextLive ==
    \/ Len(heap) < 1 /\ AppCreateSession("")
    \/ Admit(MaxSends, 1) /\ AppSendMessage(1, <<" ", "Hello">>)
    \/ \E r \in DOMAIN calls, ans \in {"ok", "timeout"} : AppSettle(r, ans)
    \/ Admit(MaxSends, 1) /\ ChatPost(<<" ", "Hello">>, <<1>>, "none")
    \/ \E r \in DOMAIN calls, sc \in {<<"ok">>, <<"timeout">>} : ChatSettle(r, sc)
    \/ impl = "chatbot-api" /\ NextLLM

SpecLive == Init /\ [][NextLive]_vars

\* The same runs under the scheduling the platform guarantees: every awaited
\* POST settles (axios rejects it after its timeout at the latest) and every
\* timer of _sleep fires.  Nothing obliges a client to send a request.
SpecLiveFair ==
    /\ SpecLive
    /\ WF_vars(\E r \in DOMAIN calls, ans \in {"ok", "timeout"} : AppSettle(r, ans))
    /\ WF_vars(\E r \in DOMAIN calls, sc \in {<<"ok">>, <<"timeout">>} : ChatSettle(r, sc))
    /\ WF_vars(LLMPostSettles)
    /\ WF_vars(LLMSleepEnds)

\* ------------------------------------------------------------ properties

\* The map of the server that runs, and the stored conversations.
StoreMap == IF impl = "sidecar-app" THEN chatSessions ELSE conversations
StoredIds == DOMAIN StoreMap
StoredMessages(id) == heap[StoreMap[id]].messages
StoredLog(id) == heap[StoreMap[id]].log
ValidMessages == {m \in Messages : Trim(m) # <<>>}

\* The step is the end of the send handler of request r: its call leaves the
\* set of suspended calls.
Settles(r) == MapHas(calls, r) /\ ~MapHas(calls', r)

C2_AppendsNeverInterleave ==
    \A id \in StoredIds :
        \A i, j \in 1..Len(StoredMessages(id)) :
            (/\ StoredMessages(id)[i].role = "user"
             /\ StoredMessages(id)[j].role = "assistant"
             /\ StoredMessages(id)[i].req = StoredMessages(id)[j].req)
            => j = i + 1

\* The storage cap of the server that runs (sidecar-app reads no
\* MAX_CONVERSATION_LENGTH; the documented default is taken for it).
StorageCap == IF impl = "chatbot-api" THEN maxConversationLength ELSE DefaultMaxLength

\* C3 (as stated): every stored conversation holds at most the configured
\* maximum number of messages.
C3_StoredWithinCap ==
    \A id \in StoredIds : Len(StoredMessages(id)) <= StorageCap

\* C4 (as stated): once more than K messages were appended to a stored
\* conversation, its history is exactly the last K of the appended messages.
C4_ExactlyLastK ==
    \A id \in StoredIds :
        Len(StoredLog(id)) > StorageCap
        => StoredMessages(id) = SliceLast(StoredLog(id), StorageCap)

C6_FailureAppendsApology ==
    [][\A r \in DOMAIN calls :
          (/\ calls[r].ref # 0
           /\ Settles(r) /\ resp'.req = r /\ resp'.status # 200)
          => (/\ MapHas(StoreMap', calls[r].id)
              /\ LET ms == heap'[StoreMap'[calls[r].id]].messages
                 IN  /\ Len(ms) >= 2
                     /\ ms[Len(ms)] = ErrorMsg(r)
                     /\ \E i \in 1..Len(ms) : ms[i] = calls[r].user)]_vars

C8_ExhaustsAfterMaxRetries ==
    /\ llm.posts <= maxRetries
    /\ llm.pc = "failed"
       => (/\ llm.posts = maxRetries
           /\ Len(llm.waits) = maxRetries - 1
           /\ llm.result.kind = "throw"
           /\ llm.result.attempts = llm.posts
           /\ llm.result.cause = ErrorMessage(llm.seen))

\* C8 witness: a call of three attempts has failed, its last attempt on a
\* time-out, and carries the time-out's message.
C8_Witness ==
    /\ llm.pc = "failed" /\ maxRetries = 3 /\ llm.posts = 3
    /\ llm.seen = "timeout" /\ llm.result.cause = ErrorMessage("timeout")

\* The failures the claim calls transient.
Transient == {"refused", "timeout", "http500"}

\* C9 (as stated): a retry follows a transient failure only; an HTTP 400 ends
\* the call at once, after one attempt and no backoff wait.
C9_NoRetryOn4xx ==
    /\ llm.pc = "sleeping" => llm.seen \in Transient
    /\ llm.seen = "http400" => (llm.pc = "failed" /\ llm.posts = 1 /\ llm.waits = <<>>)

\* The delays of the claim, written out: 1000, 2000, 4000, 5000, 5000, ...
StatedDelay(n) ==
    CASE n = 1 -> 1000 [] n = 2 -> 2000 [] n = 3 -> 4000 [] OTHER -> 5000

\* C10: the wait after failed attempt n is min(1000 * 2^(n-1), 5000) ms, for
\* every n from 1 to maxRetries - 1, and never more than 5000 ms.
C10_BackoffDelays ==
    /\ Len(llm.waits) <= maxRetries - 1
    /\ llm.pc = "sleeping" => Len(llm.waits) = llm.attempt
    /\ \A n \in 1..Len(llm.waits) :
          llm.waits[n] = StatedDelay(n) /\ llm.waits[n] <= MaxDelay

\* C10 witness: a call sleeps after its fourth failed attempt, for the capped
\* 5000 ms.
C10_Witness ==
    /\ llm.pc = "sleeping" /\ llm.attempt = 4
    /\ llm.waits = <<1000, 2000, 4000, 5000>>

\* The sum of a sequence of delays.
RECURSIVE SumSeq(_)
SumSeq(w) == IF w = <<>> THEN 0 ELSE Head(w) + SumSeq(Tail(w))

\* The sum of the first k delays of the claim: 1000, 3000, 7000, 12000, ...
RECURSIVE StatedSum(_)
StatedSum(k) == IF k = 0 THEN 0 ELSE StatedSum(k - 1) + StatedDelay(k)

\* C11: a call that succeeds on attempt k + 1 after k failed attempts returns
\* the result of that attempt (its text, its attempt number), has waited
\* exactly the first k backoff delays, 1000 + 2000 ms for k = 2, and has made
\* no POST after the successful one.
C11_SuccessAfterKFailures ==
    llm.pc = "success" =>
        /\ ~IsRejected(llm.seen)
        /\ llm.result.kind = "ok"
        /\ llm.result.text = ResponseText(llm.seen)
        /\ llm.result.attempt = llm.posts
        /\ llm.posts <= maxRetries
        /\ Len(llm.waits) = llm.posts - 1
        /\ SumSeq(llm.waits) = StatedSum(llm.posts - 1)

\* C11 witness: a call has succeeded on its third attempt after two failures
\* and has waited 1000 and 2000 ms.
C11_Witness ==
    /\ llm.pc = "success" /\ llm.posts = 3 /\ llm.result.attempt = 3
    /\ llm.result.text = <<"Hi there">>
    /\ SumSeq(llm.waits) = 3000

IsSuffix(s, l) == Len(s) <= Len(l) /\ SliceLast(l, Len(s)) = s

\* The messages a GET of conversation id returns and their number.
Returned(id) == IF MapHas(StoreMap, id) THEN StoredMessages(id) ELSE <<>>

Expired(id) ==
    /\ MapHas(StoreMap, id)
    /\ IF impl = "chatbot-api"
       THEN heap[StoreMap[id]].lastActivity < now - MaxAgeHours
       ELSE /\ heap[StoreMap[id]].createdAt < now - MaxAgeHours
            /\ StoredLog(id) = <<>>

\* C15 (as stated): every conversation that is inactive for longer than the
\* retention window is eventually swept from the store.
C15_ExpiredEventuallySwept ==
    \A id \in 1..MaxSessions : [](Expired(id) => <>(~MapHas(StoreMap, id)))

\* C16 (as stated): when the handler of a send to an existing conversation
\* ends, with the sidecar call succeeded or failed, the last-activity
\* timestamp of the conversation is the time of the send.  (Stated for
\* chatbot-api, whose conversations have the timestamp; a sidecar-app session
\* has none.)
C16_SendUpdatesLastActivity ==
    [][\A r \in DOMAIN calls :
          (/\ impl = "chatbot-api"
           /\ calls[r].ref # 0 /\ Settles(r) /\ resp'.req = r
           /\ MapHas(conversations', calls[r].id))
          => heap'[conversations'[calls[r].id]].lastActivity = now]_vars

\* The messages that are empty or white space only.
BlankMessages == {m \in Messages : Trim(m) = <<>>}

\* A rejection: the answer is 400 and nothing but the response changes.
RejectedUnchanged ==
    /\ resp'.op = "send" /\ resp'.status = 400 /\ resp'.req = 0
    /\ UNCHANGED <<impl, now, heap, chatSessions, conversations,
                   maxConversationLength, calls, nreq, maxRetries, llm>>

\* C17: in every reachable state, with or without sends in flight, a send
\* whose text is empty or white space only can do one thing, for every id,
\* stored or not (in chatbot-api for every conversationId and context): answer
\* 400 and leave every session, conversation and history unchanged, with no
\* sidecar call begun.
C17_BlankMessageRejected ==
    \A m \in BlankMessages :
        /\ \A id \in 0..Len(heap) :
              ~ENABLED (AppSendMessage(id, m) /\ ~RejectedUnchanged)
        /\ \A cid \in ConversationIds, x \in Contexts :
              ~ENABLED (ChatPost(m, cid, x) /\ ~RejectedUnchanged)

\* C17 witness: sidecar-app has answered 400 to a send on a stored session
\* that holds a completed exchange; nothing was appended to it and no call
\* is suspended.
C17_Witness ==
    /\ impl = "sidecar-app"
    /\ resp.op = "send" /\ resp.status = 400 /\ resp.req = 0
    /\ MapHas(chatSessions, resp.id)
    /\ Len(StoredMessages(resp.id)) = 2
    /\ calls = EmptyMap

\* C18 (as stated): every stored assistant message of a successful send
\* carries a model id and a token count (eval_count), in both servers.
C18_AssistantCarriesModelAndTokens ==
    \A id \in StoredIds :
        \A i \in 1..Len(StoredMessages(id)) :
            (StoredMessages(id)[i].role = "assistant" /\ ~StoredMessages(id)[i].error)
            => (StoredMessages(id)[i].model # "" /\ StoredMessages(id)[i].tokens # <<>>)

\* C18 (amended): a send appends exactly one assistant message, after its user
\* message.  When the sidecar call succeeded, the sidecar-app message carries
\* the completion text, the model name of the request ("phi4" by default) and
\* eval_count as tokens; the chatbot-api message carries the text and, in its
\* metadata, the eval_count the sidecar sent, but no model id.  The
\* conversation length returned equals the
\* stored history length, 2 for the first successful send to a new
\* conversation.
C18_SuccessAppendsOneAssistant ==
    /\ \A id \in StoredIds :
          \A i \in 1..Len(StoredLog(id)) :
              StoredLog(id)[i].role = "assistant" =>
                 /\ \E j \in 1..(i - 1) :
                       /\ StoredLog(id)[j].role = "user"
                       /\ StoredLog(id)[j].req = StoredLog(id)[i].req
                 /\ \A k \in 1..Len(StoredLog(id)) :
                       (/\ StoredLog(id)[k].role = "assistant"
                        /\ StoredLog(id)[k].req = StoredLog(id)[i].req) => k = i
                 /\ ~StoredLog(id)[i].error =>
                       IF impl = "sidecar-app"
                       THEN /\ StoredLog(id)[i].model = "phi4"
                            /\ <<StoredLog(id)[i].content, StoredLog(id)[i].tokens>>
                                  \in {<< <<"Hi there">>, <<5>> >>, <<FallbackNotice, <<0>> >>}
                       ELSE /\ StoredLog(id)[i].model = ""
                            /\ <<StoredLog(id)[i].content, StoredLog(id)[i].tokens>>
                                  \in {<< <<"Hi there">>, <<5>> >>, << <<>>, <<>> >>}
    /\ (/\ resp.op = "send" /\ resp.status = 200
        /\ MapHas(StoreMap, resp.id)
        /\ StoredMessages(resp.id) # <<>>
        /\ StoredMessages(resp.id)[Len(StoredMessages(resp.id))].req = resp.req
        /\ StoredMessages(resp.id)[Len(StoredMessages(resp.id))].role = "assistant")
       => /\ resp.count = Len(StoredMessages(resp.id))
          /\ Len(StoredLog(resp.id)) = 2 => resp.count = 2

\* C18 witness: the first send to a new sidecar-app session has succeeded:
\* "Hi there" with 5 tokens is stored after the user message and the length
\* returned is 2.
C18_Witness ==
    /\ impl = "sidecar-app"
    /\ resp.op = "send" /\ resp.status = 200 /\ resp.count = 2
    /\ MapHas(chatSessions, resp.id)
    /\ StoredMessages(resp.id)
          = <<UserMsg(resp.req, <<"Hello">>),
              AssistantMsg(resp.req, <<"Hi there">>, "phi4", <<5>>)>>

StoresLast(id, m) ==
    /\ MapHas(StoreMap', id)
    /\ heap'[StoreMap'[id]].messages # <<>>
    /\ heap'[StoreMap'[id]].messages[Len(heap'[StoreMap'[id]].messages)] = m

C20_HealthCheckNeverThrows ==
    (impl = "chatbot-api" /\ resp.op = "health") => ~resp.flagged

\* The step changes nothing but the response.
OnlyResponds ==
    UNCHANGED <<impl, now, heap, chatSessions, conversations,
                maxConversationLength, calls, nreq, maxRetries, llm>>

\* C20 (amended): LLMService.healthCheck returns 'healthy', without model
\* identifiers, when GET /api/tags succeeds, and throws when the sidecar is
\* unreachable, times out or answers an error status; the /health handler
\* catches that and answers 503 unhealthy, 200 healthy otherwise.  GET
\* /api/sidecar/health of sidecar-app answers 200 healthy with the available
\* models when the probe succeeds and 503 unhealthy otherwise.  No probe
\* changes the store.
C20_HealthByProbe ==
    /\ \A t \in ProbeAnswers :
          /\ HealthCheck(t).kind = (IF t.kind = "ok" THEN "return" ELSE "throw")
          /\ HealthCheck(t).kind = "return" => HealthCheck(t).value = "healthy"
          /\ ~ENABLED (/\ AppSidecarHealth(t)
                       /\ ~(/\ OnlyResponds
                            /\ resp'.op = "health"
                            /\ IF t.kind = "ok"
                               THEN /\ resp'.status = 200 /\ ~resp'.flagged
                                    /\ resp'.count = Len(t.models)
                               ELSE resp'.status = 503 /\ resp'.flagged))
          /\ ~ENABLED (/\ ChatHealth(t)
                       /\ ~(/\ OnlyResponds
                            /\ resp'.op = "health" /\ resp'.count = 0
                            /\ IF t.kind = "ok"
                               THEN resp'.status = 200 /\ ~resp'.flagged
                               ELSE resp'.status = 503 /\ resp'.flagged))
    /\ resp.op = "health" =>
          (resp.status \in {200, 503} /\ (resp.status = 503 <=> resp.flagged))

\* C20 witness: chatbot-api has answered 503 to GET /health after healthCheck
\* threw, with a conversation stored.
C20_Witness ==
    /\ impl = "chatbot-api"
    /\ resp.op = "health" /\ resp.status = 503 /\ resp.flagged
    /\ conversations # EmptyMap

\* The time of the latest activity on a stored object: lastActivity where the
\* server keeps one, else the time of the latest message or of the creation.
LastActive(obj) ==
    IF impl = "chatbot-api" THEN obj.lastActivity
    ELSE IF obj.log = <<>> THEN obj.createdAt
    ELSE obj.log[Len(obj.log)].timestamp

\* l lists ids of the map m without repetition, largest key first.
ListsByKey(l, m, key(_)) ==
    /\ \A i \in DOMAIN l : MapHas(m, l[i])
    /\ \A i, j \in DOMAIN l : i < j => (l[i] # l[j] /\ key(heap[m[l[i]]]) >= key(heap[m[l[j]]]))

CreatedAt(obj) == obj.createdAt

LastActivity(obj) == obj.lastActivity

\* The step is a listing: it answers with a list.  (A listing that repeats
\* the response before it changes nothing at all.)
Lists == resp' # resp /\ resp'.op = "list"

\* C21 (as stated): a listing returns stored conversations ordered by the
\* time of their latest activity, most recent first, at most 20 of them, and
\* changes nothing in the store.
C21_ListedByLastActivity ==
    [][Lists => /\ ListsByKey(resp'.list, StoreMap, LastActive)
                /\ Len(resp'.list) <= ListLimit
                /\ OnlyResponds]_vars

\* C21 (amended): GET /api/chat/sessions of sidecar-app returns the stored
\* sessions ordered by creation time, most recently created first, cut to
\* the first 20 (no session left out was created later than a listed one),
\* with the number of stored sessions as total; sessions have no last-activity
\* timestamp and the limit is fixed.  ChatService.getActiveConversations
\* returns every stored conversation, without a limit, ordered by lastActivity,
\* most recent first.  Neither changes the store.
C21_ListedByCreationOrActivity ==
    [][Lists =>
         /\ OnlyResponds
         /\ resp'.count = Cardinality(StoredIds)
         /\ IF impl = "sidecar-app"
            THEN /\ ListsByKey(resp'.list, chatSessions, CreatedAt)
                 /\ Len(resp'.list) = Min(Cardinality(StoredIds), ListLimit)
                 /\ resp'.status = 200
                 /\ \A id \in StoredIds, i \in DOMAIN resp'.list :
                       (\A j \in DOMAIN resp'.list : resp'.list[j] # id)
                       => heap[chatSessions[id]].createdAt
                          <= heap[chatSessions[resp'.list[i]]].createdAt
            ELSE /\ ListsByKey(resp'.list, conversations, LastActivity)
                 /\ Len(resp'.list) = Cardinality(StoredIds)]_vars

\* C21 witness: sidecar-app has listed 20 of more than 20 stored sessions,
\* the first of them created later than the last.
C21_Witness ==
    /\ impl = "sidecar-app"
    /\ resp.op = "list" /\ resp.count > ListLimit /\ Len(resp.list) = ListLimit
    /\ \A i \in DOMAIN resp.list : MapHas(chatSessions, resp.list[i])
    /\ heap[resp.list[1]].createdAt > heap[resp.list[ListLimit]].createdAt

\* The step answers a delete of id.  (A delete that repeats the response
\* before it found nothing to delete, and changes nothing at all.)
Deletes(id) == resp' # resp /\ resp'.op = "delete" /\ resp'.id = id

\* The answer of a delete that found the id: 200 from the route of
\* sidecar-app, true from ChatService.clearConversation.
DeleteSucceeds == IF impl = "sidecar-app" THEN resp'.status = 200 ELSE resp'.flagged

DeleteNotFound == IF impl = "sidecar-app" THEN resp'.status = 404 ELSE ~resp'.flagged

\* Every stored conversation but id is stored after the step as it was.
OthersKept(id) ==
    \A other \in StoredIds \ {id} :
        /\ MapHas(StoreMap', other)
        /\ heap'[StoreMap'[other]] = heap[StoreMap[other]]

\* C22 (as stated): a delete of a stored id removes it and succeeds, a delete
\* of an id that is not stored answers NotFound and leaves the store
\* unchanged, neither touches another conversation; and a session of
\* sidecar-app that was deleted stays deleted (creations never reuse an id),
\* so that a second delete of it answers NotFound.
C22_DeleteThenNotFound ==
    [][/\ \A id \in 0..Len(heap) \cup 1..MaxSessions :
             Deletes(id) =>
                 /\ OthersKept(id)
                 /\ ~MapHas(StoreMap', id)
                 /\ IF MapHas(StoreMap, id) THEN DeleteSucceeds
                    ELSE DeleteNotFound /\ UNCHANGED <<heap, chatSessions, conversations>>
       /\ impl = "sidecar-app" =>
             \A id \in 1..Len(heap) :
                 ~MapHas(chatSessions, id) => ~MapHas(chatSessions', id)]_vars

C24_CreateAddsOneFresh ==
    impl = "sidecar-app" =>
        \A t \in Titles :
            /\ ENABLED AppCreateSession(t)
            /\ ~ENABLED (/\ AppCreateSession(t)
                         /\ ~(/\ resp'.op = "create" /\ resp'.status = 201
                              /\ resp'.id \notin DOMAIN chatSessions
                              /\ resp'.id \notin 1..Len(heap)
                              /\ DOMAIN chatSessions' = DOMAIN chatSessions \cup {resp'.id}
                              /\ heap'[chatSessions'[resp'.id]].messages = <<>>
                              /\ heap'[chatSessions'[resp'.id]].createdAt = now
                              /\ \A id \in DOMAIN chatSessions :
                                    heap'[chatSessions'[id]] = heap[chatSessions[id]]
                              /\ UNCHANGED <<calls, nreq, conversations>>))

\* C24 witness: sidecar-app has answered 201 to a create after an earlier
\* session was deleted; the new session is stored under another id, empty.
C24_Witness ==
    /\ impl = "sidecar-app"
    /\ resp.op = "create" /\ resp.status = 201
    /\ MapHas(chatSessions, resp.id) /\ heap[chatSessions[resp.id]].messages = <<>>
    /\ \E id \in 1..Len(heap) : id < resp.id /\ ~MapHas(chatSessions, id)

\* What identifies a message: the request that pushed it, and its role.
Key(m) == <<m.req, m.role>>

\* The history new keeps a tail of the history old, unchanged and first, and
\* every message after it is one that old does not hold: messages left at the
\* front only, and came at the end only.
AppendsOrEvicts(old, new) ==
    \E k \in 0..Len(old) :
        LET kept == SubSeq(old, k + 1, Len(old))
        IN  /\ Len(kept) <= Len(new)
            /\ SubSeq(new, 1, Len(kept)) = kept
            /\ \A i \in (Len(kept) + 1)..Len(new), j \in 1..Len(old) :
                  Key(new[i]) # Key(old[j])

\* C25 (as stated): no step changes a stored message, and every step leaves
\* the history stored under an id as it was but for messages evicted from
\* its front and messages appended at its end.
C25_OnlyAppendOrEvict ==
    [][\A id \in StoredIds :
          MapHas(StoreMap', id) =>
              AppendsOrEvicts(StoredMessages(id), heap'[StoreMap'[id]].messages)]_vars

\* The step is an import of a conversation for id.
Imports(id) ==
    /\ resp'.op = "import" /\ resp'.id = id /\ resp'.count = 1
    /\ calls' = calls /\ nreq' = nreq

\* C25 (amended): no request changes a message of a session or conversation
\* object: a send appends one message at the end of the object's history
\* (twice: the user message, then the reply), and in chatbot-api it may evict
\* messages from the front before the sidecar call; so a message has the
\* same role, content, timestamp and flags for as long as it is stored.
\* The history stored under an id changes in the same way only, except by
\* ChatService.importConversations, which replaces the conversation stored
\* under an id by the imported one, whatever it holds.
C25_ObjectsAppendOnly_ImportReplaces ==
    [][/\ \A ref \in 1..Len(heap) :
             heap'[ref] # NoObj =>
                 \E k \in 0..Len(heap[ref].messages), n \in 0..1 :
                     /\ impl = "sidecar-app" => k = 0
                     /\ Len(heap'[ref].messages) = Len(heap[ref].messages) - k + n
                     /\ SubSeq(heap'[ref].messages, 1, Len(heap[ref].messages) - k)
                        = SubSeq(heap[ref].messages, k + 1, Len(heap[ref].messages))
       /\ \A id \in StoredIds :
             (MapHas(StoreMap', id) /\ ~Imports(id)) =>
                 AppendsOrEvicts(StoredMessages(id), heap'[StoreMap'[id]].messages)]_vars

\* C25 witness: chatbot-api has imported an earlier backup of a conversation
\* that a successful send had stored: the reply is gone from the end of the
\* stored history.
C25_Witness ==
    /\ impl = "chatbot-api"
    /\ resp.op = "import" /\ resp.count = 1
    /\ MapHas(conversations, resp.id)
    /\ LET ms == heap[conversations[resp.id]].messages
       IN  Len(ms) = 1 /\ ms[1].role = "user" /\ ms[1].req >= 1

\* The step suspends one new call on the sidecar, numbered as no call before.
BeginsOneCall ==
    /\ nreq' = nreq + 1
    /\ DOMAIN calls' = DOMAIN calls \cup {nreq'}
    /\ nreq' \notin DOMAIN calls
    /\ \A r \in DOMAIN calls : calls'[r] = calls[r]

\* C26: a send either is answered at once (400, 404) and begins no call, or
\* suspends exactly one new call on the sidecar; when the call of request r
\* settles, whatever the outcome, the handler ends: r leaves the suspended
\* calls, no call is begun in its place, and request numbers are never used
\* again.  The one call of chatbot-api makes between 1 and maxRetries POSTs
\* whatever the sidecar answers; sidecar-app's is a single POST.
C26_OneClientCallPerSend ==
    /\ [](\A r \in DOMAIN calls :
            /\ r <= nreq
            /\ impl = "chatbot-api" =>
                  \A sc \in Scripts :
                      RunLLM(LLMBegin(FormatMessagesAsPrompt(calls[r].prompt), maxRetries),
                             sc, maxRetries).posts \in 1..maxRetries)
    /\ [][/\ \A r \in DOMAIN calls :
                Settles(r) => (calls' = MapDelete(calls, r) /\ nreq' = nreq)
          /\ (nreq' # nreq \/ DOMAIN calls' \ DOMAIN calls # {}) => BeginsOneCall
          /\ (resp' # resp /\ resp'.op = "send" /\ resp'.req = 0) =>
                (resp'.status \in {400, 404} /\ UNCHANGED <<calls, nreq, heap>>)
          /\ (resp' # resp /\ resp'.op = "send" /\ resp'.req # 0) =>
                Settles(resp'.req)]_vars

\* C26 witness: chatbot-api has answered 500 to its second send, after the
\* client gave up; no call is suspended and no other was begun.
C26_Witness ==
    /\ impl = "chatbot-api"
    /\ resp.op = "send" /\ resp.status = 500 /\ resp.req = 2
    /\ nreq = 2 /\ calls = EmptyMap

\* C27: in every reachable state with a send suspended at its sidecar call,
\* the server answers the other requests: a create, a listing, and for every
\* stored conversation a get, a delete and a send, which is accepted and
\* suspends its own call; and every suspended call can settle, with success
\* or with failure, whichever others are suspended.  A send that begins
\* changes no conversation but its own, and a send that fails changes no
\* conversation but its own.
C27_PendingSendBlocksNothing ==
    /\ [](calls # EmptyMap =>
            /\ impl = "sidecar-app" =>
                  /\ ENABLED (AppCreateSession("") /\ resp'.status = 201)
                  /\ ENABLED (AppListSessions /\ resp'.status = 200)
                  /\ \A id \in StoredIds :
                        /\ ENABLED (AppGetSession(id) /\ resp'.status = 200)
                        /\ ENABLED (AppDeleteSession(id) /\ resp'.status = 200)
                        /\ ENABLED (AppSendMessage(id, <<"Hello">>) /\ BeginsOneCall)
                  /\ \A r \in DOMAIN calls, ans \in {"ok", "timeout"} :
                        ENABLED (AppSettle(r, ans) /\ ~MapHas(calls', r))
            /\ impl = "chatbot-api" =>
                  /\ ENABLED (ChatGetActiveConversations /\ resp'.op = "list")
                  /\ \A id \in 1..MaxSessions :
                        /\ ENABLED (ChatGetHistory(<<id>>) /\ resp'.status = 200)
                        /\ ENABLED (ChatClearConversation(id) /\ resp'.op = "delete")
                        /\ ENABLED (ChatPost(<<"Hello">>, <<id>>, "none") /\ BeginsOneCall)
                  /\ \A r \in DOMAIN calls, sc \in {<<"ok">>, <<"timeout">>} :
                        ENABLED (ChatSettle(r, sc) /\ ~MapHas(calls', r)))
    /\ [][/\ BeginsOneCall => OthersKept(calls'[nreq'].id)
          /\ \A r \in DOMAIN calls :
                (Settles(r) /\ resp'.status = 500) => OthersKept(calls[r].id)]_vars

\* C27 witness: a send to one conversation has been answered 200 while a send
\* to another conversation, begun before it, is still suspended.
C27_Witness ==
    /\ resp.op = "send" /\ resp.status = 200
    /\ \E r \in DOMAIN calls : r < resp.req /\ calls[r].id # resp.id

\* The stored history a send found (Before) and left (After) when it
\* suspended on the sidecar, and the entries of its prompt after the system
\* entry.
SendBefore == LET c == calls'[nreq'] IN IF c.ref = 0 THEN <<>> ELSE heap[c.ref].messages
SendAfter == LET c == calls'[nreq'] IN IF c.ref = 0 THEN c.fresh.messages ELSE heap'[c.ref].messages
SendPrompt == calls'[nreq'].prompt

C29_SystemHistoryThenTurn ==
    [][BeginsOneCall =>
          LET n == Len(SendPrompt)
              between == SubSeq(SendPrompt, 2, n - 1)
              history == [i \in 1..Len(SendBefore) |-> PromptEntry(SendBefore[i])]
          IN  /\ n >= 2
              /\ SendPrompt[1].role = "system"
              /\ SendPrompt[n].role = "user"
              /\ Trim(SendPrompt[n].content) = calls'[nreq'].user.content
              /\ IsSuffix(between, history)]_vars

\* C30 (as stated): generateResponse called with the empty prompt is over at
\* once, failed with an InvalidRequest error, having made no POST to the
\* sidecar and no backoff wait.
C30_EmptyPromptFailsFast ==
    (llm.pc # "idle" /\ llm.prompt = <<>>)
        => /\ llm.pc = "failed"
           /\ llm.result.cause = "InvalidRequest"
           /\ llm.posts = 0
           /\ llm.waits = <<>>

\* The object ref is the one stored under id.
StoredAs(m, id, ref) == MapHas(m, id) /\ m[id] = ref

\* C31 (as stated): when the call of a send settles whose conversation was
\* removed from the store while the send was awaiting the sidecar, the
\* conversation is not stored afterwards: the completion of the send does
\* not put it back.
C31_DeletedStaysDeleted ==
    [][\A r \in DOMAIN calls :
          (/\ Settles(r)
           /\ calls[r].ref # 0
           /\ ~StoredAs(StoreMap, calls[r].id, calls[r].ref))
          => ~MapHas(StoreMap', calls[r].id)]_vars

\* m is one of the messages of the sequence ms.
Holds(ms, m) == \E i \in 1..Len(ms) : ms[i] = m

\* C32 (as stated): when a generateResponse call succeeds that began while its
\* conversationId was not in the store, and another call has stored the
\* conversation meanwhile, the conversation stored afterwards holds (while
\* under the cap) the messages stored before and the user and assistant
\* messages of the call: 4 messages for two concurrent first sends.
C32_NoCompletedSendLost ==
    [][\A r \in DOMAIN calls :
          (/\ impl = "chatbot-api"
           /\ Settles(r) /\ resp'.req = r /\ resp'.status = 200
           /\ calls[r].ref = 0
           /\ MapHas(conversations, calls[r].id)
           /\ MapHas(conversations', calls[r].id)
           /\ Len(StoredMessages(calls[r].id)) + 2 <= maxConversationLength)
          => LET old == StoredMessages(calls[r].id)
                 new == heap'[conversations'[calls[r].id]].messages
             IN  /\ \A i \in 1..Len(old) : Holds(new, old[i])
                 /\ Holds(new, calls[r].user)
                 /\ Len(new) = Len(old) + 2]_vars

\* The number of user entries of the list es whose trimmed text is text.
Occurs(es, text) ==
    Cardinality({i \in 1..Len(es) : es[i].role = "user" /\ Trim(es[i].content) = text})

\* C33 (as stated): in the message list a send hands over, the new user
\* message occurs exactly once: when the history the send found holds no user
\* message of the same text, the list has one user entry of that text.
C33_NewTurnOnce ==
    [][BeginsOneCall =>
          LET text == calls'[nreq'].user.content
          IN  Occurs(SendBefore, text) = 0 => Occurs(SendPrompt, text) = 1]_vars

\* C34 (as stated): a stored conversation with no send in flight has a
\* history that is empty or ends with an assistant message (a reply or an
\* error-flagged fallback).
C34_QuietHistoryEndsWithAssistant ==
    \A id \in StoredIds :
        (\A r \in DOMAIN calls : calls[r].id # id)
            => \/ StoredMessages(id) = <<>>
               \/ StoredMessages(id)[Len(StoredMessages(id))].role = "assistant"

\* The recorded lastActivity of the conversation stored under id is older
\* than the retention window.
Stale(id) == heap[conversations[id]].lastActivity < now - MaxAgeHours

\* The step ends a successful send of request r: the only caller of the sweep.
SweepsAfter(r) == Settles(r) /\ resp'.req = r /\ resp'.status = 200

\* C35: in chatbot-api a conversation leaves the store only by
\* clearConversation or by the sweep that ends a successful send.  That sweep
\* removes exactly the other conversations whose recorded lastActivity is
\* older than now minus 24 hours: the conversation of the send, just stamped
\* with now, stays stored, and every other conversation with lastActivity
\* inside the window stays stored under the same object, its messages and
\* fields unchanged.
C35_SweepRemovesOnlyStale ==
    [][impl = "chatbot-api" =>
          /\ \A id \in DOMAIN conversations :
                ~MapHas(conversations', id) =>
                    \/ Deletes(id)
                    \/ \E r \in DOMAIN calls :
                          SweepsAfter(r) /\ calls[r].id # id /\ Stale(id)
          /\ \A r \in DOMAIN calls :
                SweepsAfter(r) =>
                    /\ MapHas(conversations', calls[r].id)
                    /\ heap'[conversations'[calls[r].id]].lastActivity = now
                    /\ \A id \in DOMAIN conversations \ {calls[r].id} :
                          IF Stale(id)
                          THEN ~MapHas(conversations', id)
                          ELSE /\ StoredAs(conversations', id, conversations[id])
                               /\ heap'[conversations[id]] = heap[conversations[id]]]_vars

\* C35 witness: a successful send, made after the clock passed the retention
\* window, has just ended; the conversation it updated is stored, stamped
\* with now, and the conversation of the first send, last active at hour 0,
\* is no longer stored.
C35_Witness ==
    /\ impl = "chatbot-api"
    /\ now > MaxAgeHours
    /\ resp.op = "send" /\ resp.status = 200 /\ resp.req = 2
    /\ MapHas(conversations, resp.id)
    /\ heap[conversations[resp.id]].lastActivity = now
    /\ \E id \in 1..MaxSessions : id # resp.id /\ ~MapHas(conversations, id)
    /\ Len(heap) = 2 /\ \E ref \in 1..Len(heap) : heap[ref] = NoObj

\* C36: the backoff waits of a call lie strictly between its attempts.  While
\* attempt n is awaited, n - 1 POSTs have settled and n - 1 waits were made;
\* during the sleep after attempt n there are n of each; a call that has ended
\* after a attempts has made a - 1 waits.  A wait begins only when an attempt
\* below maxRetries has just failed, and the next step after it is the next
\* attempt; the step that ends the call, by success or after the
\* maxRetries-th failure, adds no wait.
C36_WaitsOnlyBetweenAttempts ==
    /\ [](/\ llm.pc = "attempting" =>
                (llm.posts = llm.attempt - 1 /\ Len(llm.waits) = llm.attempt - 1)
          /\ llm.pc = "sleeping" =>
                (llm.posts = llm.attempt /\ Len(llm.waits) = llm.attempt)
          /\ LLMDone(llm) => Len(llm.waits) = llm.posts - 1)
    /\ [][/\ llm'.waits # llm.waits =>
                /\ llm.pc = "attempting" /\ llm'.pc = "sleeping"
                /\ llm.attempt < maxRetries
                /\ Len(llm'.waits) = Len(llm.waits) + 1
                /\ llm'.posts = llm.posts + 1
          /\ llm.pc = "sleeping" =>
                (llm'.pc = "attempting" /\ llm'.waits = llm.waits)
          /\ (~LLMDone(llm) /\ LLMDone(llm')) =>
                (llm.pc = "attempting" /\ llm'.waits = llm.waits)]_vars

\* C36 witness: a call of three attempts has failed on its third attempt,
\* having waited twice, 1000 and 2000 ms, and not after the last failure.
C36_Witness ==
    /\ maxRetries = 3 /\ llm.pc = "failed"
    /\ llm.posts = 3 /\ llm.waits = <<1000, 2000>>

\* C37: when every awaited POST settles and every backoff timer fires, a call
\* of generateResponse that has begun ends, in success or in the terminal
\* failure, having made at most maxRetries POSTs; and every send that was
\* accepted and suspended on the sidecar is answered: its handler ends and
\* the response of the request is returned.
C37_CallsAndSendsEnd ==
    /\ [](llm.posts <= maxRetries)
    /\ (llm.pc # "idle") ~> LLMDone(llm)
    /\ \A r \in 1..MaxSends :
          MapHas(calls, r) ~> (~MapHas(calls, r) /\ resp.op = "send" /\ resp.req = r)

\* C37 witness: the direct call has ended in the terminal failure after
\* maxRetries POSTs, and the second send of the client has been answered.
C37_Witness ==
    /\ llm.pc = "failed" /\ llm.posts = maxRetries
    /\ calls = EmptyMap /\ nreq = 2
    /\ resp.op = "send" /\ resp.req = 2

\* What importConversations(data) is to leave behind, by the claim.
ImportEffect(data) ==
    LET valid == {id \in DOMAIN data : data[id].kind # "invalid"}
    IN  /\ resp'.op = "import" /\ resp'.count = Cardinality(valid)
        /\ DOMAIN conversations' = DOMAIN conversations \cup valid
        /\ \A id \in DOMAIN conversations \ valid :
              /\ conversations'[id] = conversations[id]
              /\ heap'[conversations'[id]] = heap[conversations[id]]
        /\ \A id \in valid :
              heap'[conversations'[id]].messages =
                  IF data[id].kind = "same" THEN heap[data[id].ref].messages
                  ELSE <<UserMsg(0, <<"Hello">>)>>
        /\ data = ExportConversations =>
              /\ conversations' = conversations
              /\ \A id \in DOMAIN conversations :
                    heap'[conversations'[id]] = heap[conversations[id]]

\* C38: in every reachable state of chatbot-api, importConversations of any
\* data returns the number of entries that have a messages array, stores
\* exactly those under their ids with the messages of the entry, and leaves
\* every other stored conversation as it was; for the data that
\* exportConversations() returns, the store afterwards has the same ids and,
\* for each id, the same conversation with the same messages.
C38_ImportStoresValidEntries ==
    impl = "chatbot-api" =>
        \A data \in BackupData :
            ~ENABLED (ChatImportData(data) /\ ~ImportEffect(data))

\* C38 witness: an import of two entries with messages arrays has returned 2:
\* a conversation that holds the exchange of a send is stored with its
\* messages as they were pushed, beside a conversation of one imported message.
C38_Witness ==
    /\ impl = "chatbot-api"
    /\ resp.op = "import" /\ resp.id = 0 /\ resp.count = 2
    /\ Cardinality(DOMAIN conversations) = 2
    /\ \E id \in DOMAIN conversations :
          /\ Len(StoredMessages(id)) = 2
          /\ StoredMessages(id)[1].req >= 1
          /\ StoredMessages(id)[2].role = "assistant"
    /\ \E id \in DOMAIN conversations :
          StoredMessages(id) = <<UserMsg(0, <<"Hello">>)>>

====
